---- MODULE Spec2Model ----
(* Model of analyze.py: a NOAA daily-observation CSV is read row by row,   *)
(* collated by station, and each station is emitted as a 365-row           *)
(* day-of-year x year matrix of TMAX values.                               *)
EXTENDS Integers, Sequences, FiniteSets, TLC

VARIABLES pc, headers, input, stations, station_id_to_data, last_station,
          emit_idx, disk, emitted, fault, calDate, calDoy, calEntries

vars == <<pc, headers, input, stations, station_id_to_data, last_station,
          emit_idx, disk, emitted, fault, calDate, calDoy, calEntries>>

parseVars == <<pc, headers, input, stations, station_id_to_data, last_station,
               emit_idx, disk, emitted, fault>>

calVars == <<calDate, calDoy, calEntries>>

(* ---------------------------------------------------------------------- *)
(* Bounds                                                                  *)
(* ---------------------------------------------------------------------- *)

\* longest input (number of data rows) explored
MaxRows == 3

\* a write fault strikes after at most this many lines of a file were written
MaxFaultLine == 7

\* the calendar functions are explored CalSpan years either side of a century
CalSpan == 4

(* ---------------------------------------------------------------------- *)
(* Python values that end up in matrix cells: str objects and the float    *)
(* object FLOAT_NAN                                                        *)
(* ---------------------------------------------------------------------- *)

Str(t) == [kind |-> "str", text |-> t]

FLOAT_NAN == [kind |-> "float", text |-> "nan"]

\* the initial content of a matrix cell, '' (line 176)
BLANK == Str("")

\* the literal '="MISSING"' of line 189
MISSING == Str("=\"MISSING\"")

\* Python's == on these values: a str never equals a float, and
\* a float NaN compares unequal to everything, itself included
PyEq(a, b) ==
    IF a.kind # b.kind THEN FALSE
    ELSE IF a.kind = "float" /\ (a.text = "nan" \/ b.text = "nan") THEN FALSE
    ELSE a = b

\* csv.writer turns a field into text with str()
CsvField(v) == v.text

(* ---------------------------------------------------------------------- *)
(* Calendar                                                                *)
(* ---------------------------------------------------------------------- *)

is_leap_year(year) ==
    IF year % 100 = 0 THEN year % 400 = 0 ELSE year % 4 = 0

\* int(x / 9.0) of a non-negative x truncates, i.e. is the integer quotient
doy(Y, M, D) ==
    LET K == IF is_leap_year(Y) THEN 1 ELSE 2
    IN  ((275 * M) \div 9) - K * ((M + 9) \div 12) + D - 30

\* the calendar of datetime.date (proleptic Gregorian)
DaysInMonth(y, m) ==
    IF m = 2 THEN (IF y % 4 = 0 /\ (y % 100 # 0 \/ y % 400 = 0) THEN 29 ELSE 28)
    ELSE IF m \in {4, 6, 9, 11} THEN 30 ELSE 31

MINYEAR == 1

MAXYEAR == 9999

\* datetime.date(y, m, d) raises ValueError unless this holds
ValidDate(y, m, d) ==
    /\ y >= MINYEAR /\ y <= MAXYEAR
    /\ m >= 1 /\ m <= 12
    /\ d >= 1 /\ d <= DaysInMonth(y, m)

NumDays == 365

\* day_of_year without the shift of lines 185-186
day_of_year_noshift(year, month, day) ==
    doy(year, month, day)

\* the normalized day of year of lines 183-186
day_of_year(year, month, day) ==
    IF is_leap_year(year) /\ month > 2
    THEN doy(year, month, day) - 1
    ELSE doy(year, month, day)

\* Python list indexing: a negative index counts from the end;
\* -1 stands for IndexError
NoIndex == -1

PyIndex(i, len) ==
    IF i >= 0 /\ i < len THEN i
    ELSE IF i < 0 /\ i >= -len THEN i + len
    ELSE NoIndex

\* PopulateEntry without the leap-day skip of lines 180-181
PopulateEntry_noskip(entries, year_dict, data) ==
    LET n == day_of_year(data.year, data.month, data.day)
        r == PyIndex(n - 1, NumDays)
        year_index == year_dict[data.year]
        cell == IF ~PyEq(data.tmax, FLOAT_NAN) THEN data.tmax ELSE MISSING
    IN  [entries EXCEPT ![r] = [@ EXCEPT ![year_index + 1] = cell]]

\* one iteration of the loop of lines 178-189 on the matrix `entries`
\* (a function from row 0..364 to the sequence of that row's cells)
PopulateEntry(entries, year_dict, data) ==
    IF data.month = 2 /\ data.day = 29 THEN entries
    ELSE LET n == day_of_year(data.year, data.month, data.day)
             r == PyIndex(n - 1, NumDays)
             year_index == year_dict[data.year]
             cell == IF ~PyEq(data.tmax, FLOAT_NAN) THEN data.tmax ELSE MISSING
         IN  [entries EXCEPT ![r] = [@ EXCEPT ![year_index + 1] = cell]]

\* line 189 raises IndexError for this observation
IndexFault(data) ==
    /\ ~(data.month = 2 /\ data.day = 29)
    /\ PyIndex(day_of_year(data.year, data.month, data.day) - 1, NumDays) = NoIndex

\* line 176
BlankEntries(year_count) ==
    [x \in 0..(NumDays - 1) |-> [y \in 1..year_count |-> BLANK]]

(* ---------------------------------------------------------------------- *)
(* Input file                                                              *)
(* ---------------------------------------------------------------------- *)

\* header rows the input file may start with
H_full == <<"STATION", "NAME", "DATE", "ACMH", "PRCP", "PSUN", "TAVG", "TMAX", "TMIN", "TOBS">>

H_noTOBS == <<"STATION", "NAME", "DATE", "ACMH", "PRCP", "PSUN", "TAVG", "TMAX", "TMIN">>

H_six == <<"STATION", "NAME", "DATE", "TMAX", "TMIN", "TAVG">>

H_noTMAX == <<"STATION", "NAME", "DATE", "ACMH", "PRCP", "PSUN", "TAVG", "TMIN", "TOBS">>

H_noSTATION == <<"NAME", "DATE", "ACMH", "PRCP", "PSUN", "TAVG", "TMAX", "TMIN", "TOBS">>

HeaderRows == {H_full, H_noTOBS, H_six, H_noTMAX, H_noSTATION}

\* DATE texts, as sequences of characters
D_20200229 == <<"2", "0", "2", "0", "-", "0", "2", "-", "2", "9">>

D_20200301 == <<"2", "0", "2", "0", "-", "0", "3", "-", "0", "1">>

D_20210301 == <<"2", "0", "2", "1", "-", "0", "3", "-", "0", "1">>

D_20191231 == <<"2", "0", "1", "9", "-", "1", "2", "-", "3", "1">>

\* the pattern matches a prefix of this one
D_20210301T == <<"2", "0", "2", "1", "-", "0", "3", "-", "0", "1", "T">>

\* no match: wrong separator
D_slash == <<"2", "0", "2", "0", "/", "0", "3", "/", "0", "1">>

\* no match: two-digit year
D_short == <<"2", "0", "-", "0", "3", "-", "0", "1">>

\* matches the pattern but is no calendar date
D_20210229 == <<"2", "0", "2", "1", "-", "0", "2", "-", "2", "9">>

Row(station, name, date, tmax) ==
    [STATION |-> station, NAME |-> name, DATE |-> date, TMAX |-> tmax]

\* the data rows an input file is made of (the TMIN and TAVG fields are
\* read into the entry but never used afterwards, and are left out)
Rows ==
    { Row("S1", "Alpha", D_20200229, "10"),
      Row("S1", "Alpha", D_20200301, "12"),
      Row("S1", "Alpha", D_20210301, "9"),
      Row("S1", "", D_20200301, ""),
      Row("S1", "Beta", D_20210301T, "12"),
      Row("S1", "", D_slash, "10"),
      Row("S2", "", D_20191231, "9"),
      Row("S2", "Beta", D_20200229, ""),
      Row("S2", "Alpha", D_20191231, "12"),
      Row("S2", "Beta", D_20210229, "10"),
      Row("S2", "Beta", D_short, "") }

(* ---------------------------------------------------------------------- *)
(* CSVHeaders, NOAAClimateDataHeaders                                      *)
(* ---------------------------------------------------------------------- *)

\* CSVHeaders.__init__: column name -> index of its last occurrence
header_to_index_map(header_row) ==
    [s \in {header_row[i] : i \in 1..Len(header_row)} |->
        CHOOSE i \in 1..Len(header_row) :
            /\ header_row[i] = s
            /\ \A j \in 1..Len(header_row) : header_row[j] = s => j <= i]

\* the columns NOAAClimateDataHeaders.__init__ looks up, in its order
NOAAColumns == <<"DATE", "STATION", "NAME", "ACMH", "PRCP", "PSUN", "TAVG", "TMAX", "TMIN", "TOBS">>

\* NOAAClimateDataHeaders.__init__ raises KeyError unless every lookup succeeds
NOAAClimateDataHeaders(header_row) ==
    \A i \in 1..Len(NOAAColumns) :
        NOAAColumns[i] \in DOMAIN header_to_index_map(header_row)

(* ---------------------------------------------------------------------- *)
(* DataEntry                                                               *)
(* ---------------------------------------------------------------------- *)

Digits == {"0", "1", "2", "3", "4", "5", "6", "7", "8", "9"}

DigitVal(c) ==
    CASE c = "0" -> 0 [] c = "1" -> 1 [] c = "2" -> 2 [] c = "3" -> 3
      [] c = "4" -> 4 [] c = "5" -> 5 [] c = "6" -> 6 [] c = "7" -> 7
      [] c = "8" -> 8 [] c = "9" -> 9

\* dateParserRegex.match(textdate): \d\d\d\d-\d\d-\d\d anchored at the
\* start of the text only
dateParserRegex(textdate) ==
    /\ Len(textdate) >= 10
    /\ \A i \in {1, 2, 3, 4, 6, 7, 9, 10} : textdate[i] \in Digits
    /\ textdate[5] = "-"
    /\ textdate[8] = "-"

\* int() of the decimal digits text[from..to]
RECURSIVE ToInt(_, _, _)
ToInt(text, from, to) ==
    IF to < from THEN 0
    ELSE 10 * ToInt(text, from, to - 1) + DigitVal(text[to])

NoFault == "none"

\* DataEntry.__init__: the entry, or the exception it raises
DataEntry(row) ==
    IF ~dateParserRegex(row.DATE)
    THEN [fault |-> "AttributeError"]
    ELSE LET year == ToInt(row.DATE, 1, 4)
             month == ToInt(row.DATE, 6, 7)
             day == ToInt(row.DATE, 9, 10)
         IN  IF ~ValidDate(year, month, day)
             THEN [fault |-> "ValueError"]
             ELSE [fault |-> NoFault, year |-> year, month |-> month, day |-> day,
                   tmax |-> IF row.TMAX # "" THEN Str(row.TMAX) ELSE FLOAT_NAN]

(* ---------------------------------------------------------------------- *)
(* StationData, Corpus                                                     *)
(* ---------------------------------------------------------------------- *)

\* StationData.__init__
StationData(id) == [station_id |-> id, station_name |-> "", values |-> <<>>]

RECURSIVE SortedSeq(_)
SortedSeq(S) ==
    IF S = {} THEN <<>>
    ELSE LET m == CHOOSE x \in S : \A y \in S : x <= y
         IN  <<m>> \o SortedSeq(S \ {m})

\* the years of a station in the order in which its observations bring them
RECURSIVE YearsInOrder(_, _)
YearsInOrder(values, n) ==
    IF n = 0 THEN <<>>
    ELSE LET before == YearsInOrder(values, n - 1)
         IN  IF \E k \in 1..Len(before) : before[k] = values[n].year
             THEN before
             ELSE Append(before, values[n].year)

\* GetYears without sorted()
GetYears_unsorted(station) ==
    YearsInOrder(station.values, Len(station.values))

\* StationData.GetYears
GetYears(station) ==
    SortedSeq({station.values[i].year : i \in 1..Len(station.values)})

\* lines 168-172: year -> zero-based column
YearDict(year_list) ==
    [y \in {year_list[i] : i \in 1..Len(year_list)} |->
        (CHOOSE i \in 1..Len(year_list) : year_list[i] = y) - 1]

\* lines 176-189: the station's matrix
RECURSIVE Populate(_, _, _, _)
Populate(entries, year_dict, values, k) ==
    IF k > Len(values) THEN entries
    ELSE Populate(PopulateEntry(entries, year_dict, values[k]), year_dict, values, k + 1)

DataEntries(station) ==
    LET year_list == GetYears(station)
    IN  Populate(BlankEntries(Len(year_list)), YearDict(year_list), station.values, 1)

(* ---------------------------------------------------------------------- *)
(* Rendering (lines 191-209)                                               *)
(* ---------------------------------------------------------------------- *)

RefYear == 1975

\* AddDays counting from 1 January of a leap year
RECURSIVE AddDays_leap(_, _)
AddDays_leap(month, days_to_add) ==
    IF days_to_add < DaysInMonth(RefYear + 1, month)
    THEN <<month, days_to_add + 1>>
    ELSE AddDays_leap(month + 1, days_to_add - DaysInMonth(RefYear + 1, month))

\* datetime.date(1975,1,1) + datetime.timedelta(days_to_add), as <<month, day>>
RECURSIVE AddDays(_, _)
AddDays(month, days_to_add) ==
    IF days_to_add < DaysInMonth(RefYear, month)
    THEN <<month, days_to_add + 1>>
    ELSE AddDays(month + 1, days_to_add - DaysInMonth(RefYear, month))

\* calendar.month_abbr
month_abbr == <<"Jan", "Feb", "Mar", "Apr", "May", "Jun", "Jul", "Aug", "Sep", "Oct", "Nov", "Dec">>

\* f'{monthname}-{monthday.day}' of row i
DateLabel(i) ==
    LET monthday == AddDays(1, i)
    IN  month_abbr[monthday[1]] \o "-" \o ToString(monthday[2])

DateLabels == [i \in 0..(NumDays - 1) |-> DateLabel(i)]

\* the five rows of writer.writerows (lines 193-197)
Preamble(station, year_list) ==
    << [kind |-> "title", name |-> station.station_name, id |-> station.station_id,
        from |-> year_list[1], to |-> year_list[Len(year_list)]],
       [kind |-> "source"],
       [kind |-> "empty"],
       [kind |-> "generated"],
       [kind |-> "empty"] >>

\* header_row (lines 199-200)
HeaderRow(year_list) == [kind |-> "header", years |-> year_list]

\* newrow of line 207, for row i of the matrix
NewRow(data_entries, i) ==
    [kind |-> "data", doy |-> i + 1, date |-> DateLabels[i],
     cells |-> [c \in DOMAIN data_entries[i] |-> CsvField(data_entries[i][c])]]

PreambleLines == 5

\* everything the with-block of lines 191-209 writes for one station
Render(station) ==
    LET year_list == GetYears(station)
        data_entries == DataEntries(station)
    IN  Preamble(station, year_list)
        \o <<HeaderRow(year_list)>>
        \o [k \in 1..NumDays |-> NewRow(data_entries, k - 1)]

(* ---------------------------------------------------------------------- *)
(* parse()                                                                 *)
(* ---------------------------------------------------------------------- *)

NoDate == <<>>

Init ==
    /\ pc = "start"
    /\ headers = <<>>
    /\ input = <<>>
    /\ stations = <<>>
    /\ station_id_to_data = <<>>
    /\ last_station = 0
    /\ emit_idx = 0
    /\ disk = <<>>
    /\ emitted = <<>>
    /\ fault = NoFault
    /\ calDate = NoDate
    /\ calDoy = 0
    /\ calEntries = <<>>

Abort(f) ==
    /\ pc' = "aborted"
    /\ fault' = f

\* lines 147-148: the header row is read and its columns are resolved
ReadHeader ==
    /\ pc = "start"
    /\ \E h \in HeaderRows :
        /\ headers' = h
        /\ IF NOAAClimateDataHeaders(h)
           THEN pc' = "read" /\ fault' = fault
           ELSE Abort("KeyError")
    /\ UNCHANGED <<input, stations, station_id_to_data, last_station, emit_idx,
                   disk, emitted, calVars>>

\* Corpus.__getitem__ without the lookup of lines 129-131
CorpusGet_nolookup(station_id) ==
    [index |-> Len(stations) + 1,
     stations |-> Append(stations, StationData(station_id)),
     station_id_to_data |->
         [id \in DOMAIN station_id_to_data \cup {station_id} |->
             IF id = station_id THEN Len(stations) + 1
             ELSE station_id_to_data[id]]]

\* Corpus.__getitem__: the index of the station in corpus.stations, the
\* station being appended when the id is new
CorpusGet(station_id) ==
    IF station_id \in DOMAIN station_id_to_data
    THEN [index |-> station_id_to_data[station_id],
          stations |-> stations,
          station_id_to_data |-> station_id_to_data]
    ELSE [index |-> Len(stations) + 1,
          stations |-> Append(stations, StationData(station_id)),
          station_id_to_data |->
              [id \in DOMAIN station_id_to_data \cup {station_id} |->
                  IF id = station_id THEN Len(stations) + 1
                  ELSE station_id_to_data[id]]]

\* lines 155-158: which station the row goes to, and its name
SelectStation(row) ==
    IF last_station = 0 \/ stations[last_station].station_id # row.STATION
    THEN LET got == CorpusGet(row.STATION)
         IN  [index |-> got.index,
              station_id_to_data |-> got.station_id_to_data,
              stations |->
                  IF got.stations[got.index].station_name = ""
                  THEN [got.stations EXCEPT ![got.index].station_name = row.NAME]
                  ELSE got.stations]
    ELSE [index |-> last_station,
          station_id_to_data |-> station_id_to_data,
          stations |-> stations]

\* ReadRow with a row that does not parse skipped instead of raised
ReadRow_skip ==
    /\ pc = "read"
    /\ Len(input) < MaxRows
    /\ \E row \in Rows :
        LET data_entry == DataEntry(row)
            sel == SelectStation(row)
        IN  /\ input' = Append(input, row)
            /\ IF data_entry.fault # NoFault
               THEN UNCHANGED <<pc, fault, stations, station_id_to_data, last_station>>
               ELSE /\ last_station' = sel.index
                    /\ station_id_to_data' = sel.station_id_to_data
                    /\ stations' = [sel.stations EXCEPT
                                      ![sel.index].values = Append(@, data_entry)]
                    /\ UNCHANGED <<pc, fault>>
    /\ UNCHANGED <<headers, emit_idx, disk, emitted, calVars>>

\* one iteration of the loop of lines 152-160
ReadRow ==
    /\ pc = "read"
    /\ Len(input) < MaxRows
    /\ \E row \in Rows :
        LET data_entry == DataEntry(row)
            sel == SelectStation(row)
        IN  /\ input' = Append(input, row)
            /\ IF data_entry.fault # NoFault
               THEN /\ Abort(data_entry.fault)
                    /\ UNCHANGED <<stations, station_id_to_data, last_station>>
               ELSE /\ last_station' = sel.index
                    /\ station_id_to_data' = sel.station_id_to_data
                    /\ stations' = [sel.stations EXCEPT
                                      ![sel.index].values = Append(@, data_entry)]
                    /\ UNCHANGED <<pc, fault>>
    /\ UNCHANGED <<headers, emit_idx, disk, emitted, calVars>>

\* the reader is exhausted: the loop of line 165 starts
EndOfInput ==
    /\ pc = "read"
    /\ pc' = "emit"
    /\ emit_idx' = 1
    /\ UNCHANGED <<headers, input, stations, station_id_to_data, last_station,
                   disk, emitted, fault, calVars>>

\* the station's matrix cannot be populated (line 189 raises)
PopulateFault(station) ==
    \E k \in 1..Len(station.values) : IndexFault(station.values[k])

WriteFile(id, lines) ==
    [f \in DOMAIN disk \cup {id} |-> IF f = id THEN lines ELSE disk[f]]

\* one iteration of the loop of lines 165-209 that runs to its end
EmitStation ==
    /\ pc = "emit"
    /\ emit_idx <= Len(stations)
    /\ LET station == stations[emit_idx]
       IN  IF PopulateFault(station)
           THEN /\ Abort("IndexError")
                /\ UNCHANGED <<disk, emitted, emit_idx>>
           ELSE /\ disk' = WriteFile(station.station_id, Render(station))
                /\ emitted' = Append(emitted, station.station_id)
                /\ emit_idx' = emit_idx + 1
                /\ UNCHANGED <<pc, fault>>
    /\ UNCHANGED <<headers, input, stations, station_id_to_data, last_station, calVars>>

\* open() of line 191 raises: the matrix is built, no file is created
EmitOpenFault ==
    /\ pc = "emit"
    /\ emit_idx <= Len(stations)
    /\ ~PopulateFault(stations[emit_idx])
    /\ Abort("OSError")
    /\ UNCHANGED <<headers, input, stations, station_id_to_data, last_station,
                   emit_idx, disk, emitted, calVars>>

\* a write of lines 193-209 raises after k lines reached the file that
\* open() created
EmitWriteFault ==
    /\ pc = "emit"
    /\ emit_idx <= Len(stations)
    /\ ~PopulateFault(stations[emit_idx])
    /\ \E k \in 0..MaxFaultLine :
        LET station == stations[emit_idx]
        IN  /\ k < Len(Render(station))
            /\ disk' = WriteFile(station.station_id, SubSeq(Render(station), 1, k))
            /\ emitted' = Append(emitted, station.station_id)
    /\ Abort("OSError")
    /\ UNCHANGED <<headers, input, stations, station_id_to_data, last_station,
                   emit_idx, calVars>>

\* the loop of line 165 is over: parse() returns
Finish ==
    /\ pc = "emit"
    /\ emit_idx > Len(stations)
    /\ pc' = "done"
    /\ UNCHANGED <<headers, input, stations, station_id_to_data, last_station,
                   emit_idx, disk, emitted, fault, calVars>>

Next ==
    \/ ReadHeader
    \/ ReadRow
    \/ EndOfInput
    \/ EmitStation
    \/ EmitOpenFault
    \/ EmitWriteFault
    \/ Finish

Spec == Init /\ [][Next]_vars

(* ---------------------------------------------------------------------- *)
(* The calendar functions and the projection of one observation, on every  *)
(* date of the years CalYears                                              *)
(* ---------------------------------------------------------------------- *)

Centuries == {1900, 2000}

CalYears == UNION {(c - CalSpan)..(c + CalSpan) : c \in Centuries}

CalTmax == Str("10")

\* lines 176-189 for a station whose only observation is dated (y, m, d)
Project ==
    \E y \in CalYears, m \in 1..12, d \in 1..31 :
        /\ calDate = NoDate
        /\ ValidDate(y, m, d)
        /\ LET data == [fault |-> NoFault, year |-> y, month |-> m, day |-> d,
                        tmax |-> CalTmax]
           IN  calEntries' = IF IndexFault(data) THEN <<>>
                             ELSE PopulateEntry(BlankEntries(1), YearDict(<<y>>), data)
        /\ calDate' = <<y, m, d>>
        /\ calDoy' = day_of_year(y, m, d)
        /\ UNCHANGED parseVars

NextCal == Project

SpecCal == Init /\ [][NextCal]_vars

(* ---------------------------------------------------------------------- *)
(* Properties of the calendar normalization (checked under SpecCal)        *)
(* ---------------------------------------------------------------------- *)

\* the rows of a matrix that hold a written cell
WrittenRows(entries) ==
    {r \in DOMAIN entries : \E c \in DOMAIN entries[r] : entries[r][c] # BLANK}

\* a year with a 29 February, by the calendar of datetime.date
HasLeapDay(y) == DaysInMonth(y, 2) = 29

Later(m1, d1, m2, d2) == m2 > m1 \/ (m2 = m1 /\ d2 > d1)

\* C1: for every valid date other than 29 February the normalized day of
\* year lies in 1..365, it is the one matrix row the observation writes, and
\* every later month-day of the same year (29 February aside) gets a
\* strictly larger one.
C1_DoyRangeMonotone ==
    (calDate # NoDate /\ ~(calDate[2] = 2 /\ calDate[3] = 29)) =>
        /\ calDoy \in 1..365
        /\ WrittenRows(calEntries) = {calDoy - 1}
        /\ \A m2 \in 1..12, d2 \in 1..31 :
             ( /\ ValidDate(calDate[1], m2, d2)
               /\ ~(m2 = 2 /\ d2 = 29)
               /\ Later(calDate[2], calDate[3], m2, d2) )
             => day_of_year(calDate[1], m2, d2) > calDoy

\* 31 December of the leap year 2000 is projected to row 364
C1_Witness ==
    /\ calDate = <<2000, 12, 31>>
    /\ calDoy = 365
    /\ WrittenRows(calEntries) = {364}

\* C2: in a leap year an observation of 29 February writes no cell, and an
\* observation of 1 March .. 31 December gets the normalized day of year,
\* and writes the row, of the same month-day in every non-leap year.
C2_LeapYear ==
    (calDate # NoDate /\ HasLeapDay(calDate[1])) =>
        /\ (calDate[2] = 2 /\ calDate[3] = 29) => WrittenRows(calEntries) = {}
        /\ calDate[2] > 2 =>
             \A y2 \in CalYears :
                ~HasLeapDay(y2) =>
                    /\ calDoy = doy(y2, calDate[2], calDate[3])
                    /\ WrittenRows(calEntries) = {doy(y2, calDate[2], calDate[3]) - 1}

\* 29 February 1904 was projected and the matrix is still blank
C2_Witness ==
    /\ calDate = <<1904, 2, 29>>
    /\ DOMAIN calEntries = 0..(NumDays - 1)
    /\ WrittenRows(calEntries) = {}

(* ---------------------------------------------------------------------- *)
(* Properties of parse() (checked under Spec)                              *)
(* ---------------------------------------------------------------------- *)

FileLines == PreambleLines + 1 + NumDays

\* the file of station id is on disk and the with-block ran to its end
Complete(id) == id \in DOMAIN disk /\ Len(disk[id]) = FileLines

\* the positions of the input rows that carry station id
RowsOf(id) == {i \in 1..Len(input) : input[i].STATION = id}

\* every row read so far was parsed into an entry
AllParsed == \A i \in 1..Len(input) : DataEntry(input[i]).fault = NoFault

IsLeapDay(e) == e.month = 2 /\ e.day = 29

\* "{month abbreviation}-{day of month}" of an entry's own date
OwnLabel(e) == month_abbr[e.month] \o "-" \o ToString(e.day)

\* the matrix row r (0..364) of a complete file
DataRow(file, r) == file[PreambleLines + 2 + r]

\* the texts found in a complete file at the rows labelled `label` and the
\* columns headed `year`
FileCells(file, label, year) ==
    {DataRow(file, r).cells[c] :
        <<r, c>> \in {rc \in (0..(NumDays - 1)) \X DOMAIN file[PreambleLines + 1].years :
                        /\ DataRow(file, rc[1]).date = label
                        /\ file[PreambleLines + 1].years[rc[2]] = year}}

\* row i is the last row of its station with its date
LastOfDate(i) ==
    \A j \in RowsOf(input[i].STATION) :
        LET e == DataEntry(input[i])
            g == DataEntry(input[j])
        IN  (g.year = e.year /\ g.month = e.month /\ g.day = e.day) => j <= i

ExampleRows == <<Row("S1", "Alpha", D_20200229, "10"),
                 Row("S1", "Alpha", D_20200301, "12"),
                 Row("S1", "Alpha", D_20210301, "9")>>

\* the scenario of the three rows 2020-02-29=10, 2020-03-01=12, 2021-03-01=9
ExampleHolds ==
    (input = ExampleRows /\ Complete("S1")) =>
        /\ disk["S1"][PreambleLines + 1].years = <<2020, 2021>>
        /\ \E r \in 0..(NumDays - 1) :
              /\ DataRow(disk["S1"], r).date = "Mar-1"
              /\ DataRow(disk["S1"], r).cells = <<"12", "9">>
        /\ \A r \in 0..(NumDays - 1) :
              \A c \in DOMAIN DataRow(disk["S1"], r).cells :
                  DataRow(disk["S1"], r).cells[c] # "10"

\* C3 as stated: every observation not dated 29 February has its TMAX in the
\* row labelled with its own month and day and the column headed by its year.
C3_EveryObservationCarried ==
    \A i \in 1..Len(input) :
        (AllParsed /\ Complete(input[i].STATION) /\ ~IsLeapDay(DataEntry(input[i]))) =>
            LET e == DataEntry(input[i])
            IN  FileCells(disk[input[i].STATION], OwnLabel(e), e.year)
                    = {CsvField(e.tmax)}

\* C3 amended: the row labelled with an observation's own month and day and
\* the column headed by its year carry the TMAX of the last observation of
\* that station with that date; the three-row scenario gives the columns
\* 2020 and 2021, "Mar-1" = 12, 9 and the value 10 nowhere.
C3_LastObservationCarried ==
    /\ ExampleHolds
    /\ \A i \in 1..Len(input) :
        (AllParsed /\ Complete(input[i].STATION) /\ ~IsLeapDay(DataEntry(input[i]))
         /\ LastOfDate(i)) =>
            LET e == DataEntry(input[i])
            IN  FileCells(disk[input[i].STATION], OwnLabel(e), e.year)
                    = {CsvField(e.tmax)}

\* the three-row scenario was emitted
C3_Witness ==
    /\ pc = "done"
    /\ input = ExampleRows
    /\ Complete("S1")
    /\ FileCells(disk["S1"], "Mar-1", 2020) = {"12"}
    /\ FileCells(disk["S1"], "Mar-1", 2021) = {"9"}

\* C4: an observation with empty TMAX text (not dated 29 February, and the
\* last one of its cell) leaves the missing marker ="MISSING" in its cell.
C4_MissingMarker ==
    \A i \in 1..Len(input) :
        (AllParsed /\ Complete(input[i].STATION) /\ ~IsLeapDay(DataEntry(input[i]))
         /\ LastOfDate(i) /\ input[i].TMAX = "") =>
            LET e == DataEntry(input[i])
            IN  FileCells(disk[input[i].STATION], OwnLabel(e), e.year)
                    = {CsvField(MISSING)}

\* the NAME of the first row of station id that has one, "" when none has
FirstNonEmptyName(id) ==
    LET named == {i \in RowsOf(id) : input[i].NAME # ""}
    IN  IF named = {} THEN ""
        ELSE input[CHOOSE i \in named : \A j \in named : i <= j].NAME

\* C5: once the input is read, a station's name is the NAME of the first of
\* its rows that has a non-empty NAME.
C5_FirstNonEmptyNameWins ==
    pc \in {"emit", "done"} =>
        \A k \in 1..Len(stations) :
            stations[k].station_name = FirstNonEmptyName(stations[k].station_id)

RequiredColumns == {"STATION", "NAME", "DATE", "TMAX", "TMIN", "TAVG"}

ColumnsOf(header_row) == {header_row[i] : i \in 1..Len(header_row)}

\* the run failed on the header row, before any data row
FailedAtStartup == pc = "aborted" /\ input = <<>> /\ emit_idx = 0

\* C6: the run fails at startup exactly when one of the six required columns
\* is absent from the header row.
C6_HeaderValidation ==
    pc # "start" =>
        (FailedAtStartup <=> ~(RequiredColumns \subseteq ColumnsOf(headers)))

\* DATE has the shape YYYY-MM-DD
MatchesPattern(text) ==
    /\ Len(text) >= 10
    /\ \A k \in 1..10 :
          IF k \in {5, 8} THEN text[k] = "-" ELSE text[k] \in Digits

\* C7: once a row whose DATE does not match YYYY-MM-DD was read, the run is
\* aborted with a fault, that row is the last one read, it is in no
\* station's observations, and no output file exists.
C7_MalformedDateAborts ==
    \A i \in 1..Len(input) :
        ~MatchesPattern(input[i].DATE) =>
            /\ pc = "aborted"
            /\ fault # NoFault
            /\ i = Len(input)
            /\ \A k \in 1..Len(stations) :
                  Len(stations[k].values)
                      = Cardinality(RowsOf(stations[k].station_id) \ {i})
            /\ disk = <<>>
            /\ emitted = <<>>

\* a malformed DATE in the third row, after two rows were collated
C7_Witness ==
    /\ pc = "aborted"
    /\ Len(input) = 3
    /\ input[3].DATE = D_slash
    /\ Len(stations) = 2
    /\ disk = <<>>

\* the file is the full rendering: preamble, header row, 365 data rows
WellFormedFile(file) ==
    /\ Len(file) = FileLines
    /\ file[1].kind = "title"
    /\ file[PreambleLines + 1].kind = "header"
    /\ \A r \in 0..(NumDays - 1) : DataRow(file, r).kind = "data"

\* C8: when the run aborts during emission, every file on disk is complete,
\* the files are those of the stations before the one in progress, and the
\* station in progress has no file.
C8_CrashConsistency ==
    (pc = "aborted" /\ emit_idx >= 1) =>
        /\ \A id \in DOMAIN disk : WellFormedFile(disk[id])
        /\ DOMAIN disk = {stations[k].station_id : k \in 1..(emit_idx - 1)}
        /\ stations[emit_idx].station_id \notin DOMAIN disk

\* the years of the observations of station id
YearsOf(id) == {DataEntry(input[i]).year : i \in RowsOf(id)}

Rank(y, years) == Cardinality({z \in years : z < y})

\* C9: the year columns of a station's header row are the distinct years of
\* its observations in strictly ascending order, and the column index of a
\* year is its rank among them.
C9_YearIndex ==
    \A k \in 1..Len(stations) :
        (AllParsed /\ Complete(stations[k].station_id)) =>
            LET id == stations[k].station_id
                years == disk[id][PreambleLines + 1].years
                year_dict == YearDict(GetYears(stations[k]))
            IN  /\ {years[c] : c \in DOMAIN years} = YearsOf(id)
                /\ \A c, d \in DOMAIN years : c < d => years[c] < years[d]
                /\ DOMAIN year_dict = YearsOf(id)
                /\ \A y \in YearsOf(id) :
                      /\ year_dict[y] = Rank(y, YearsOf(id))
                      /\ years[year_dict[y] + 1] = y

\* rows of 2021 and then of a 2020 that has only a 29 February were emitted
C9_Witness ==
    /\ pc = "done"
    /\ input = <<Row("S1", "Alpha", D_20210301, "9"), Row("S1", "Alpha", D_20200229, "10")>>
    /\ Complete("S1")
    /\ disk["S1"][PreambleLines + 1].years = <<2020, 2021>>

\* the station ids of the input in order of first appearance
RECURSIVE FirstAppearance(_)
FirstAppearance(n) ==
    IF n = 0 THEN <<>>
    ELSE LET before == FirstAppearance(n - 1)
         IN  IF \E k \in 1..Len(before) : before[k] = input[n].STATION
             THEN before
             ELSE Append(before, input[n].STATION)

\* where each row of station id lands: <<matrix row, year>>, or <<>> for a
\* row dated 29 February
Landing(id) ==
    [i \in RowsOf(id) |->
        LET e == DataEntry(input[i])
        IN  IF IsLeapDay(e) THEN <<>>
            ELSE <<day_of_year(e.year, e.month, e.day) - 1, e.year>>]

Last(S) == CHOOSE i \in S : \A j \in S : j <= i

\* the cell text that row i accounts for
CellFrom(i, text) ==
    IF input[i].TMAX # "" THEN text = input[i].TMAX
    ELSE text \in {CsvField(FLOAT_NAN), CsvField(MISSING)}

\* C10: files are created in the order in which the station ids first
\* appear in the input, one per id; each cell of a station's matrix comes
\* from the last row of that station that maps to it, and a cell no row maps
\* to is blank.
C10_OrderAndLastWrite ==
    AllParsed =>
        /\ Len(emitted) <= Len(FirstAppearance(Len(input)))
        /\ emitted = SubSeq(FirstAppearance(Len(input)), 1, Len(emitted))
        /\ pc \in {"emit", "done"} =>
              /\ Len(stations) = Len(FirstAppearance(Len(input)))
              /\ \A k \in 1..Len(stations) :
                    stations[k].station_id = FirstAppearance(Len(input))[k]
        /\ pc = "done" => emitted = FirstAppearance(Len(input))
        /\ \A id \in DOMAIN disk :
              Complete(id) =>
                  LET years == disk[id][PreambleLines + 1].years
                      landing == Landing(id)
                  IN  \A r \in 0..(NumDays - 1), c \in DOMAIN years :
                         LET text == DataRow(disk[id], r).cells[c]
                             from == {i \in DOMAIN landing : landing[i] = <<r, years[c]>>}
                         IN  IF from = {} THEN text = CsvField(BLANK)
                             ELSE CellFrom(Last(from), text)

\* interleaved stations, and two rows of S1 for the cell of 1 March 2021
C10_Witness ==
    /\ pc = "done"
    /\ input = <<Row("S1", "Alpha", D_20210301, "9"),
                 Row("S2", "", D_20191231, "9"),
                 Row("S1", "Beta", D_20210301T, "12")>>
    /\ emitted = <<"S1", "S2">>
    /\ DataRow(disk["S1"], 59).cells = <<"12">>

====
